---- MODULE Spec2Model ----
(***************************************************************************)
(* Model of the weather collector: extract.py (the Fetcher), load.py (the  *)
(* Store and its CSV backup) and pipeline.py (startup and the poll loop).  *)
(*                                                                         *)
(* Two specifications share the Store:                                     *)
(*   Spec       the process started by pipeline.main                        *)
(*   StoreSpec  a LoadData object driven through its public methods         *)
(***************************************************************************)
EXTENDS Integers, Sequences, FiniteSets, TLC

\* ---------------------------------------------------------------- bounds
MaxPolls == 2          \* iterations of the poll loop that are explored
MaxCalls == 4          \* public-method calls a StoreSpec client makes
Answers == {1}         \* distinct API answers
Limits == {0, 1, 2}    \* limits a client passes to get_latest_records

\* ------------------------------------------------------ program constants
BackupLimit == 1000

\* Python None / SQL NULL; every value the API delivers is positive.
None == -1
\* data.get('name', 'unknown')
Unknown == 0

\* ------------------------------------------------------------- the Fetcher
Get(obj, key, default) == IF key \in DOMAIN obj THEN obj[key] ELSE default

EmptyObj == [k \in {} |-> None]

\* The full JSON answer number v: every leaf has its own value.
FullPayload(v) ==
    [name |-> 10 * v + 1,
     sys |-> [country |-> 10 * v + 2],
     main |-> [temp |-> 10 * v + 3, temp_max |-> 10 * v + 4,
               temp_min |-> 10 * v + 5, humidity |-> 10 * v + 8],
     weather |-> << [description |-> 10 * v + 6] >>,
     clouds |-> [all |-> 10 * v + 7],
     visibility |-> 10 * v + 9]

Without(obj, key) == [k \in DOMAIN obj \ {key} |-> obj[k]]

\* The shapes of answer the API may give: complete, or with one part missing.
Shapes == {"full", "no_name", "no_sys", "no_main", "no_weather", "no_clouds",
           "no_visibility", "no_humidity", "empty_weather"}

Payload(v, shape) ==
    LET p == FullPayload(v) IN
    CASE shape = "full" -> p
      [] shape = "no_name" -> Without(p, "name")
      [] shape = "no_sys" -> Without(p, "sys")
      [] shape = "no_main" -> Without(p, "main")
      [] shape = "no_weather" -> Without(p, "weather")
      [] shape = "no_clouds" -> Without(p, "clouds")
      [] shape = "no_visibility" -> Without(p, "visibility")
      [] shape = "no_humidity" ->
            [p EXCEPT !.main = Without(p.main, "humidity")]
      [] shape = "empty_weather" -> [p EXCEPT !.weather = << >>]

\* The values datetime.now() may show: a whole second, the same second with
\* microseconds, a later second. The clock is the host's local time and may
\* repeat or step back between two calls.
DateTimes == {[sec |-> 1, us |-> 0], [sec |-> 1, us |-> 1], [sec |-> 2, us |-> 0]}

validate_api_key(api_key) == api_key # ""

\* The dict built from a parsed answer (extract.py 66-82).
weather_info(data, now) ==
    LET main_data == Get(data, "main", EmptyObj)
        weather_data == Get(data, "weather", << EmptyObj >>)[1]
        clouds_data == Get(data, "clouds", EmptyObj)
        sys_data == Get(data, "sys", EmptyObj)
    IN [timestamp |-> now,
        city |-> Get(data, "name", Unknown),
        country |-> Get(sys_data, "country", None),
        current_temperature |-> Get(main_data, "temp", None),
        max_temperature |-> Get(main_data, "temp_max", None),
        min_temperature |-> Get(main_data, "temp_min", None),
        description |-> Get(weather_data, "description", None),
        cloud_percentage |-> Get(clouds_data, "all", None),
        humidity |-> Get(main_data, "humidity", None),
        visibility |-> Get(data, "visibility", None)]

\* What one call of extract_weather_data gives: [kind, value] with kind
\* "none" (returned without a record), "record" or "raise".
NoRecord == [kind |-> "none"]
Raised == [kind |-> "raise"]

extract_weather_data(api_key, http_ok, data, now) ==
    IF ~validate_api_key(api_key) THEN NoRecord
    ELSE IF ~http_ok THEN Raised
    ELSE IF "weather" \in DOMAIN data /\ Len(data.weather) = 0 THEN Raised
    ELSE [kind |-> "record", value |-> weather_info(data, now)]

\* Every outcome a fetch can have with the given credential.
FetchOutcomes(api_key) ==
    {extract_weather_data(api_key, ok, Payload(v, s), now) :
        ok \in BOOLEAN, v \in Answers, s \in Shapes, now \in DateTimes}

\* ---------------------------------------------------------------- state
VARIABLES
    apiKey,       \* API_KEY of the environment: "" when it is not set
    tableExists,  \* Weather_data has been created in the database file
    rows,         \* the committed rows of Weather_data, in rowid order
    openConns,    \* sqlite3 connections that are open
    txn,          \* rows written by the open connection and not committed
    op,           \* the LoadData method running a connection: "none", "init", "insert", "recent"
    phase,        \* where that method is: "idle", "connect", "body", "commit", "except", "finally", "handler", "return"
    conn,         \* get_connection's local conn is not None
    exc,          \* the exception in flight: "none", "sqlite" (sqlite3.Error), "other"
    arg,          \* the method's argument: the record of insert, the limit of recent
    result,       \* what get_latest_records returned
    raised,       \* the method raised to its caller
    rows0,        \* the committed rows when the running (or last) method was called
    bk,           \* initialize_backup: "none", "query", "export", "done"
    bkRaised,     \* initialize_backup raised to its caller
    bkFault,      \* the step at which the last backup failed: "none", "query", "mkdir", "open", "write", "writerow"
    file,         \* the backup file: [exists, header, data]
    pc,           \* position of main, or of the StoreSpec client
    data,         \* the value extract_weather_data returned to main or job
    queue,        \* the due jobs run_pending is still to run
    polls,        \* iterations of the poll loop so far
    registered,   \* the jobs registered with schedule
    exitCause,    \* why main returned: "none" while it runs
    jobsRun,      \* scheduled jobs that have started, by name
    calls,        \* public-method calls the StoreSpec client has made
    prev,         \* the client's call before the running one
    events        \* the startup steps main has completed, in order

storeVars == <<tableExists, rows, openConns, txn, op, phase, conn, exc, arg, result, raised, rows0>>
backupVars == <<bk, bkRaised, bkFault, file>>
mainVars == <<apiKey, pc, data, queue, polls, registered, exitCause, jobsRun, calls, prev, events>>
vars == <<storeVars, backupVars, mainVars>>

\* ----------------------------------------------------------- the Store
NotNullColumnsLax ==
    {"timestamp", "city", "current_temperature", "max_temperature",
     "min_temperature", "description", "cloud_percent", "humidity", "visibility"}

\* The columns of Weather_data declared NOT NULL (load.py 67-76).
NotNullColumns ==
    {"timestamp", "city", "country", "current_temperature", "max_temperature",
     "min_temperature", "description", "cloud_percent", "humidity", "visibility"}

\* sqlite3's adapter for datetime, isoformat(" "): a datetime is stored as
\* text, and the text has no fraction when the microseconds are 0. A text
\* is [str |-> the sequence of its numeric parts].
adapt_datetime(dt) == [str |-> IF dt.us = 0 THEN << dt.sec >> ELSE << dt.sec, dt.us >>]

\* Texts compare from the left, a proper prefix being the smaller.
TextLess(a, b) ==
    \/ /\ Len(a.str) < Len(b.str)
       /\ \A i \in 1..Len(a.str) : a.str[i] = b.str[i]
    \/ \E i \in 1..Len(a.str) :
          /\ i <= Len(b.str)
          /\ a.str[i] < b.str[i]
          /\ \A j \in 1..(i - 1) : a.str[j] = b.str[j]

InsertParamsSwapped(info) ==
    [timestamp |-> adapt_datetime(info.timestamp),
     city |-> info.city,
     country |-> info.country,
     current_temperature |-> info.current_temperature,
     max_temperature |-> info.min_temperature,
     min_temperature |-> info.max_temperature,
     description |-> info.description,
     cloud_percent |-> info.cloud_percentage,
     humidity |-> info.humidity,
     visibility |-> info.visibility]

\* The parameters bound to the INSERT (load.py 133-144), by column.
InsertParams(info) ==
    [timestamp |-> adapt_datetime(info.timestamp),
     city |-> info.city,
     country |-> info.country,
     current_temperature |-> info.current_temperature,
     max_temperature |-> info.max_temperature,
     min_temperature |-> info.min_temperature,
     description |-> info.description,
     cloud_percent |-> info.cloud_percentage,
     humidity |-> info.humidity,
     visibility |-> info.visibility]

IsNull(params, col) == col # "timestamp" /\ params[col] = None

ViolatesNotNull(params) == \E col \in NotNullColumns : IsNull(params, col)

\* The row the INSERT writes: the surrogate key and created_at are the
\* storage engine's (AUTOINCREMENT, DEFAULT CURRENT_TIMESTAMP).
NewRow(params, committed) ==
    [id |-> Len(committed) + 1,
     timestamp |-> params.timestamp,
     city |-> params.city,
     country |-> params.country,
     current_temperature |-> params.current_temperature,
     max_temperature |-> params.max_temperature,
     min_temperature |-> params.min_temperature,
     description |-> params.description,
     cloud_percent |-> params.cloud_percent,
     humidity |-> params.humidity,
     visibility |-> params.visibility,
     created_at |-> "CURRENT_TIMESTAMP"]

\* SELECT * ... ORDER BY timestamp DESC LIMIT ?: every answer the engine may
\* give; rows of equal timestamp come in an order SQL leaves open.
Injective(s) == \A i, j \in 1..Len(s) : s[i] = s[j] => i = j

OrderedAsc(table, idx) ==
    \A i \in 1..(Len(idx) - 1) :
        ~TextLess(table[idx[i + 1]].timestamp, table[idx[i]].timestamp)

OrderedDesc(table, idx) ==
    \A i \in 1..(Len(idx) - 1) :
        ~TextLess(table[idx[i]].timestamp, table[idx[i + 1]].timestamp)

Min(a, b) == IF a < b THEN a ELSE b

SelectLatest(table, limit) ==
    LET n == Len(table)
        perms == {p \in [1..n -> 1..n] : Injective(p) /\ OrderedDesc(table, p)}
    IN {[i \in 1..Min(limit, n) |-> table[p[i]]] : p \in perms}

\* A method enters "with self.get_connection() as conn".
Enter(method, argument) ==
    /\ op' = method
    /\ phase' = "connect"
    /\ arg' = argument
    /\ conn' = FALSE
    /\ exc' = "none"
    /\ raised' = FALSE
    /\ result' = << >>
    /\ rows0' = rows
    /\ UNCHANGED <<tableExists, rows, openConns, txn>>

\* get_connection, line 48: sqlite3.connect opens the file, or fails.
Connect ==
    /\ phase = "connect"
    /\ \E ok \in BOOLEAN :
          IF ok
          THEN /\ openConns' = openConns + 1
               /\ conn' = TRUE
               /\ txn' = << >>
               /\ phase' = "body"
               /\ exc' = "none"
          ELSE /\ phase' = "except"
               /\ exc' = "sqlite"
               /\ UNCHANGED <<openConns, conn, txn>>
    /\ UNCHANGED <<tableExists, rows, op, arg, result, raised, rows0>>
    /\ UNCHANGED <<backupVars, mainVars>>

\* _init_database, lines 87-88: CREATE TABLE IF NOT EXISTS, then CREATE
\* INDEX IF NOT EXISTS. sqlite3 opens no transaction for DDL, so the table
\* is there as soon as the first statement has run, whatever follows.
InitBody ==
    /\ op = "init" /\ phase = "body"
    /\ \E outcome \in {"ok", "table_failed", "index_failed"} :
          /\ tableExists' = (tableExists \/ outcome # "table_failed")
          /\ phase' = IF outcome = "ok" THEN "commit" ELSE "except"
          /\ exc' = IF outcome = "ok" THEN "none" ELSE "sqlite"
    /\ UNCHANGED <<rows, openConns, txn, op, conn, arg, result, raised, rows0>>
    /\ UNCHANGED <<backupVars, mainVars>>

\* What the body of insert_weather_data (lines 132-144) does with its
\* argument: "other" when building the parameters fails (None is not
\* subscriptable), "sqlite" when the statement fails (no table, a NOT NULL
\* column given NULL, or the engine reports an I/O error), else "none".
InsertFailure(argument, table_exists, io_ok) ==
    IF argument.kind # "record" THEN "other"
    ELSE IF ~table_exists THEN "sqlite"
    ELSE IF ViolatesNotNull(InsertParams(argument.value)) THEN "sqlite"
    ELSE IF ~io_ok THEN "sqlite"
    ELSE "none"

InsertBody ==
    /\ op = "insert" /\ phase = "body"
    /\ \E io_ok \in BOOLEAN :
          LET failure == InsertFailure(arg, tableExists, io_ok) IN
          /\ exc' = failure
          /\ phase' = CASE failure = "none" -> "commit"
                        [] failure = "sqlite" -> "except"
                        [] failure = "other" -> "finally"
          /\ txn' = IF failure = "none"
                    THEN << NewRow(InsertParams(arg.value), rows) >>
                    ELSE txn
    /\ UNCHANGED <<tableExists, rows, openConns, op, conn, arg, result, raised, rows0>>
    /\ UNCHANGED <<backupVars, mainVars>>

\* get_latest_records, lines 169-172: the query runs and the method returns
\* from inside the with block, or the query fails.
RecentBody ==
    /\ op = "recent" /\ phase = "body"
    /\ \E io_ok \in BOOLEAN :
          IF tableExists /\ io_ok
          THEN /\ result' \in SelectLatest(rows, arg)
               /\ phase' = "finally"
               /\ exc' = "none"
          ELSE /\ phase' = "except"
               /\ exc' = "sqlite"
               /\ result' = result
    /\ UNCHANGED <<tableExists, rows, openConns, txn, op, conn, arg, raised, rows0>>
    /\ UNCHANGED <<backupVars, mainVars>>

\* conn.commit(), lines 89 and 145: the transaction becomes durable, or the
\* commit fails.
Commit ==
    /\ phase = "commit"
    /\ \E ok \in BOOLEAN :
          IF ok
          THEN /\ rows' = rows \o txn
               /\ txn' = << >>
               /\ phase' = "finally"
               /\ exc' = "none"
          ELSE /\ phase' = "except"
               /\ exc' = "sqlite"
               /\ UNCHANGED <<rows, txn>>
    /\ UNCHANGED <<tableExists, openConns, op, conn, arg, result, raised, rows0>>
    /\ UNCHANGED <<backupVars, mainVars>>

\* get_connection, lines 51-55: on sqlite3.Error roll back if connected,
\* log, raise again.
Except ==
    /\ phase = "except"
    /\ txn' = IF conn THEN << >> ELSE txn
    /\ phase' = "finally"
    /\ UNCHANGED <<tableExists, rows, openConns, op, conn, exc, arg, result, raised, rows0>>
    /\ UNCHANGED <<backupVars, mainVars>>

\* get_connection, lines 56-58: the finally clause closes the connection;
\* closing discards what was not committed.
ClosesOnSuccess(connected, exception) == connected /\ exception = "none"

ClosesConnection(connected, exception) == connected

Finally ==
    /\ phase = "finally"
    /\ IF ClosesConnection(conn, exc)
       THEN /\ openConns' = openConns - 1
            /\ txn' = << >>
       ELSE UNCHANGED <<openConns, txn>>
    /\ phase' = "handler"
    /\ UNCHANGED <<tableExists, rows, op, conn, exc, arg, result, raised, rows0>>
    /\ UNCHANGED <<backupVars, mainVars>>

\* The except clause of each method: whether the exception goes on to the
\* caller. _init_database (91-92) and get_latest_records (173-175) log and
\* swallow; insert_weather_data (147-149) logs and raises.
InitRaises(exception) == FALSE
InsertSwallows(exception) == FALSE
InsertRaises(exception) == exception # "none"
RecentRaises(exception) == FALSE

\* get_latest_records, line 175: "return []" when anything was raised.
RecentResult(exception, fetched) == IF exception = "none" THEN fetched ELSE << >>

Handler ==
    /\ phase = "handler"
    /\ raised' = CASE op = "init" -> InitRaises(exc)
                   [] op = "insert" -> InsertRaises(exc)
                   [] op = "recent" -> RecentRaises(exc)
    /\ result' = IF op = "recent" THEN RecentResult(exc, result) ELSE result
    /\ phase' = "return"
    /\ UNCHANGED <<tableExists, rows, openConns, txn, op, conn, exc, arg, rows0>>
    /\ UNCHANGED <<backupVars, mainVars>>

\* The method has returned (or raised) to its caller; its locals are gone.
Leave ==
    /\ op' = "none"
    /\ phase' = "idle"
    /\ conn' = FALSE
    /\ exc' = "none"
    /\ arg' = NoRecord
    /\ result' = << >>
    /\ raised' = FALSE
    /\ rows0' = rows
    /\ UNCHANGED <<tableExists, rows, openConns, txn>>

StoreStep == Connect \/ InitBody \/ InsertBody \/ RecentBody \/ Commit \/ Except \/ Finally \/ Handler

\* ------------------------------------------------------------ the backup
\* field_names of initialize_backup (load.py 199-205).
field_names ==
    << "timestamp", "city", "country", "current_temperature", "max_temperature",
       "min_temperature", "description", "cloud_percent", "humidity", "visibility" >>

Range(s) == {s[i] : i \in 1..Len(s)}

\* csv.DictWriter with the default extrasaction="raise": a dict with a key
\* that is no field name makes writerow raise ValueError.
WriterowRaises(rowdict, fieldnames) == DOMAIN rowdict \ Range(fieldnames) # {}

\* The cells writerow writes: the dict's values in the order of the fields.
DictToList(rowdict, fieldnames) == [i \in 1..Len(fieldnames) |-> rowdict[fieldnames[i]]]

\* The records written before the first writerow that raises.
RECURSIVE WrittenRows(_, _)
WrittenRows(records, fieldnames) ==
    IF records = << >> \/ WriterowRaises(Head(records), fieldnames)
    THEN << >>
    ELSE << DictToList(Head(records), fieldnames) >> \o WrittenRows(Tail(records), fieldnames)

NoFile == [exists |-> FALSE, header |-> << >>, data |-> << >>]

\* initialize_backup after the query (lines 191-213): the file it leaves and
\* the step that raised, if one did. The file is opened for writing, which
\* empties it, before the header and the rows are written.
Export(records, old, mkdir_ok, open_ok, write_ok) ==
    IF ~mkdir_ok THEN [file |-> old, fault |-> "mkdir"]
    ELSE IF records = << >> THEN [file |-> old, fault |-> "none"]
    ELSE IF ~open_ok THEN [file |-> old, fault |-> "open"]
    ELSE IF ~write_ok THEN [file |-> [NoFile EXCEPT !.exists = TRUE], fault |-> "write"]
    ELSE LET written == WrittenRows(records, field_names) IN
         [file |-> [exists |-> TRUE, header |-> field_names, data |-> written],
          fault |-> IF Len(written) < Len(records) THEN "writerow" ELSE "none"]

BackupReraises(exception) == exception

\* initialize_backup, lines 214-215: log, do not raise.
BackupRaises(exception) == FALSE

\* initialize_backup, line 190: records = self.get_latest_records(1000).
BackupBegin ==
    /\ bk' = "query"
    /\ bkRaised' = FALSE
    /\ bkFault' = "none"
    /\ file' = file
    /\ Enter("recent", BackupLimit)

\* The query has returned: the rest of initialize_backup.
BackupExport ==
    /\ bk = "query" /\ op = "recent" /\ phase = "return"
    /\ \E mkdir_ok, open_ok, write_ok \in BOOLEAN :
          LET e == IF raised
                   THEN [file |-> file, fault |-> "query"]
                   ELSE Export(result, file, mkdir_ok, open_ok, write_ok)
          IN /\ file' = e.file
             /\ bkFault' = IF exc # "none" THEN "query" ELSE e.fault
             /\ bkRaised' = BackupRaises(e.fault # "none")
    /\ bk' = "done"
    /\ Leave
    /\ UNCHANGED mainVars

\* ------------------------------------------------------- pipeline.main
\* main's "except Exception" (lines 74-75) and "except KeyboardInterrupt"
\* (72-73): log and return.
Exit(cause) ==
    /\ pc' = "exit"
    /\ exitCause' = cause

\* "if data:" of job (line 43): None is false, a dict with keys is true.
Truthy(value) == value.kind = "record"

\* Line 60: db = LoadData(DB_FILE); __post_init__ runs _init_database.
Start ==
    /\ pc = "start"
    /\ Enter("init", NoRecord)
    /\ pc' = "init_db"
    /\ events' = Append(events, "init")
    /\ UNCHANGED <<apiKey, data, queue, polls, registered, exitCause, jobsRun, calls, prev>>
    /\ UNCHANGED backupVars

InitReturn ==
    /\ pc = "init_db" /\ phase = "return"
    /\ Leave
    /\ IF raised
       THEN Exit("startup_init")
       ELSE pc' = "first_fetch" /\ exitCause' = exitCause
    /\ UNCHANGED <<apiKey, data, queue, polls, registered, jobsRun, calls, prev, events>>
    /\ UNCHANGED backupVars

\* Line 63: info_data = extract_weather_data(API_URL, API_KEY, CITY).
FirstFetch ==
    /\ pc = "first_fetch"
    /\ \E out \in FetchOutcomes(apiKey) :
          IF out.kind = "raise"
          THEN Exit("startup_fetch") /\ data' = data
          ELSE pc' = "first_insert" /\ data' = out /\ exitCause' = exitCause
    /\ UNCHANGED <<apiKey, queue, polls, registered, jobsRun, calls, prev, events>>
    /\ UNCHANGED <<storeVars, backupVars>>

\* Line 64: db.insert_weather_data(info_data) is called whatever info_data
\* is; unlike job, main does not test it.
FirstInsertChecked(value) == Truthy(value)

FirstInsertGuard(value) == TRUE

FirstInsert ==
    /\ pc = "first_insert"
    /\ IF FirstInsertGuard(data)
       THEN Enter("insert", data) /\ pc' = "first_insert_wait"
       ELSE UNCHANGED storeVars /\ pc' = "register"
    /\ UNCHANGED <<apiKey, data, queue, polls, registered, exitCause, jobsRun, calls, prev, events>>
    /\ UNCHANGED backupVars

\* Line 64 has returned or raised; info_data is not read again.
FirstInsertReturn ==
    /\ pc = "first_insert_wait" /\ phase = "return"
    /\ Leave
    /\ IF raised
       THEN Exit("startup_insert")
       ELSE pc' = "register" /\ exitCause' = exitCause
    /\ events' = IF raised THEN events ELSE Append(events, "cycle")
    /\ data' = NoRecord
    /\ UNCHANGED <<apiKey, queue, polls, registered, jobsRun, calls, prev>>
    /\ UNCHANGED backupVars

\* Lines 66-67: the hourly job and the weekly backup are registered.
Register ==
    /\ pc = "register"
    /\ registered' = {"hourly", "weekly"}
    /\ pc' = "poll"
    /\ events' = Append(events, "register")
    /\ UNCHANGED <<apiKey, data, queue, polls, exitCause, jobsRun, calls, prev>>
    /\ UNCHANGED <<storeVars, backupVars>>

\* Line 70: schedule.run_pending() runs the jobs that are due, one after
\* the other; which are due depends on the time that has passed.
RunPending ==
    /\ pc = "poll"
    /\ polls < MaxPolls
    /\ \E q \in {<< >>, << "hourly" >>, << "weekly" >>,
                 << "hourly", "weekly" >>, << "weekly", "hourly" >>} :
          /\ Range(q) \subseteq registered
          /\ queue' = q
    /\ polls' = polls + 1
    /\ pc' = "dispatch"
    /\ UNCHANGED <<apiKey, data, registered, exitCause, jobsRun, calls, prev, events>>
    /\ UNCHANGED <<storeVars, backupVars>>

\* An exception leaves a scheduled job: neither job (lines 34-44) nor
\* run_pending nor the loop (69-71) catches it, so it reaches main's except
\* clause, outside the loop.
JobFailed(cause) == Exit(cause) /\ queue' = queue

\* job, line 41 and the test of line 43.
JobFetch ==
    /\ pc = "dispatch"
    /\ queue # << >> /\ Head(queue) = "hourly"
    /\ jobsRun' = jobsRun \cup {"hourly"}
    /\ \E out \in FetchOutcomes(apiKey) :
          /\ data' = IF Truthy(out) THEN out ELSE NoRecord
          /\ CASE out.kind = "raise" ->
                    JobFailed("job_fetch") /\ UNCHANGED storeVars
               [] out.kind # "raise" /\ Truthy(out) ->
                    /\ Enter("insert", out)
                    /\ pc' = "job_insert"
                    /\ UNCHANGED <<queue, exitCause>>
               [] OTHER ->
                    /\ pc' = "dispatch"
                    /\ queue' = Tail(queue)
                    /\ UNCHANGED storeVars
                    /\ exitCause' = exitCause
    /\ UNCHANGED <<apiKey, polls, registered, calls, prev, events>>
    /\ UNCHANGED backupVars

\* job, line 44 has returned or raised; job's local data is gone.
JobInsertReturn ==
    /\ pc = "job_insert" /\ phase = "return"
    /\ Leave
    /\ IF raised
       THEN JobFailed("job_insert")
       ELSE pc' = "dispatch" /\ queue' = Tail(queue) /\ exitCause' = exitCause
    /\ data' = NoRecord
    /\ UNCHANGED <<apiKey, polls, registered, jobsRun, calls, prev, events>>
    /\ UNCHANGED backupVars

\* The weekly job: db.initialize_backup().
WeeklyStart ==
    /\ pc = "dispatch"
    /\ queue # << >> /\ Head(queue) = "weekly"
    /\ jobsRun' = jobsRun \cup {"weekly"}
    /\ BackupBegin
    /\ pc' = "weekly"
    /\ UNCHANGED <<apiKey, data, queue, polls, registered, exitCause, calls, prev, events>>

WeeklyReturn ==
    /\ pc = "weekly" /\ bk = "done"
    /\ bk' = "none"
    /\ bkRaised' = FALSE
    /\ bkFault' = "none"
    /\ IF bkRaised
       THEN JobFailed("weekly")
       ELSE pc' = "dispatch" /\ queue' = Tail(queue) /\ exitCause' = exitCause
    /\ UNCHANGED <<apiKey, data, polls, registered, jobsRun, calls, prev, events>>
    /\ UNCHANGED <<storeVars, file>>

\* Line 71: every due job has run; sleep(60), then poll again.
Sleep ==
    /\ pc = "dispatch" /\ queue = << >>
    /\ pc' = "poll"
    /\ UNCHANGED <<apiKey, data, queue, polls, registered, exitCause, jobsRun, calls, prev, events>>
    /\ UNCHANGED <<storeVars, backupVars>>

\* Ctrl-C during the sleep (lines 72-73).
Interrupt ==
    /\ pc = "poll"
    /\ Exit("interrupt")
    /\ UNCHANGED <<apiKey, data, queue, polls, registered, jobsRun, calls, prev, events>>
    /\ UNCHANGED <<storeVars, backupVars>>

\* ------------------------------------- a client of the LoadData object
\* What a caller may pass to insert_weather_data: a dict the Fetcher can
\* build, or None.
InsertArgs == {o \in FetchOutcomes("key") : o.kind # "raise"}

\* db = LoadData(db_file)
ClientConstruct ==
    /\ pc = "new"
    /\ Enter("init", NoRecord)
    /\ pc' = "constructing"
    /\ UNCHANGED <<apiKey, data, queue, polls, registered, exitCause, jobsRun, calls, prev, events>>
    /\ UNCHANGED backupVars

ClientConstructed ==
    /\ pc = "constructing" /\ phase = "return"
    /\ Leave
    /\ pc' = "client"
    /\ UNCHANGED <<apiKey, data, queue, polls, registered, exitCause, jobsRun, calls, prev, events>>
    /\ UNCHANGED backupVars

\* db.insert_weather_data(weather_info)
ClientInsert ==
    /\ pc = "client" /\ calls < MaxCalls
    /\ \E a \in InsertArgs : Enter("insert", a)
    /\ pc' = "client_insert"
    /\ calls' = calls + 1
    /\ UNCHANGED <<apiKey, data, queue, polls, registered, exitCause, jobsRun, prev, events>>
    /\ UNCHANGED backupVars

ClientInsertReturn ==
    /\ pc = "client_insert" /\ phase = "return"
    /\ prev' = IF raised THEN [op |-> "insert_raised"]
                         ELSE [op |-> "insert", value |-> arg.value]
    /\ Leave
    /\ pc' = "client"
    /\ UNCHANGED <<apiKey, data, queue, polls, registered, exitCause, jobsRun, calls, events>>
    /\ UNCHANGED backupVars

\* db.get_latest_records(limit)
ClientRecent ==
    /\ pc = "client" /\ calls < MaxCalls
    /\ \E k \in Limits : Enter("recent", k)
    /\ pc' = "client_recent"
    /\ calls' = calls + 1
    /\ UNCHANGED <<apiKey, data, queue, polls, registered, exitCause, jobsRun, prev, events>>
    /\ UNCHANGED backupVars

ClientRecentReturn ==
    /\ pc = "client_recent" /\ phase = "return"
    /\ prev' = [op |-> "recent"]
    /\ Leave
    /\ pc' = "client"
    /\ UNCHANGED <<apiKey, data, queue, polls, registered, exitCause, jobsRun, calls, events>>
    /\ UNCHANGED backupVars

\* db.initialize_backup()
ClientBackup ==
    /\ pc = "client" /\ calls < MaxCalls
    /\ BackupBegin
    /\ pc' = "client_backup"
    /\ calls' = calls + 1
    /\ UNCHANGED <<apiKey, data, queue, polls, registered, exitCause, jobsRun, prev, events>>

ClientBackupReturn ==
    /\ pc = "client_backup" /\ bk = "done"
    /\ bk' = "none"
    /\ bkRaised' = FALSE
    /\ bkFault' = "none"
    /\ prev' = [op |-> "backup"]
    /\ pc' = "client"
    /\ UNCHANGED <<apiKey, data, queue, polls, registered, exitCause, jobsRun, calls, events>>
    /\ UNCHANGED <<storeVars, file>>

NoCall == [op |-> "none"]

Init ==
    /\ apiKey \in {"", "key"}
    /\ tableExists = FALSE
    /\ rows = << >>
    /\ openConns = 0
    /\ txn = << >>
    /\ op = "none"
    /\ phase = "idle"
    /\ conn = FALSE
    /\ exc = "none"
    /\ arg = NoRecord
    /\ result = << >>
    /\ raised = FALSE
    /\ rows0 = << >>
    /\ bk = "none"
    /\ bkRaised = FALSE
    /\ bkFault = "none"
    /\ file = NoFile
    /\ pc = "start"
    /\ data = NoRecord
    /\ queue = << >>
    /\ polls = 0
    /\ registered = {}
    /\ exitCause = "none"
    /\ jobsRun = {}
    /\ calls = 0
    /\ prev = NoCall
    /\ events = << >>

Next ==
    \/ Start \/ InitReturn \/ FirstFetch \/ FirstInsert \/ FirstInsertReturn
    \/ Register \/ RunPending \/ JobFetch \/ JobInsertReturn
    \/ WeeklyStart \/ WeeklyReturn \/ Sleep \/ Interrupt
    \/ StoreStep \/ BackupExport

Spec == Init /\ [][Next]_vars

StoreInit ==
    /\ apiKey = "key"
    /\ tableExists = FALSE
    /\ rows = << >>
    /\ openConns = 0
    /\ txn = << >>
    /\ op = "none"
    /\ phase = "idle"
    /\ conn = FALSE
    /\ exc = "none"
    /\ arg = NoRecord
    /\ result = << >>
    /\ raised = FALSE
    /\ rows0 = << >>
    /\ bk = "none"
    /\ bkRaised = FALSE
    /\ bkFault = "none"
    /\ file = NoFile
    /\ pc = "new"
    /\ data = NoRecord
    /\ queue = << >>
    /\ polls = 0
    /\ registered = {}
    /\ exitCause = "none"
    /\ jobsRun = {}
    /\ calls = 0
    /\ prev = NoCall
    /\ events = << >>

StoreNext ==
    \/ ClientConstruct \/ ClientConstructed
    \/ ClientInsert \/ ClientInsertReturn
    \/ ClientRecent \/ ClientRecentReturn
    \/ ClientBackup \/ ClientBackupReturn
    \/ StoreStep \/ BackupExport

StoreSpec == StoreInit /\ [][StoreNext]_vars

\* ------------------------------------------------------------ properties
InLoop == pc \in {"poll", "dispatch", "job_insert", "weekly"}

\* The ten data columns of a stored row.
DataColumns == Range(field_names)

\* The fields of a record of the Fetcher that are None.
AbsentFields(info) ==
    {f \in {"city", "country", "current_temperature", "max_temperature",
            "min_temperature", "description", "cloud_percentage", "humidity",
            "visibility"} : info[f] = None}

\* The instant a stored timestamp text stands for: <<seconds, microseconds>>.
Instant(text) == << text.str[1], IF Len(text.str) > 1 THEN text.str[2] ELSE 0 >>

Earlier(a, b) == a[1] < b[1] \/ (a[1] = b[1] /\ a[2] < b[2])

\* C1: a fetch or insert failure during a scheduled hourly cycle never ends
\* the poll loop: main does not return because of it.
C1_FailureContained == exitCause \notin {"job_fetch", "job_insert"}

\* C2: with an empty credential no cycle, the one at startup included,
\* invokes insert, and none ends the process.
C2_MissingCredentialNotFatal ==
    apiKey = "" => /\ op # "insert"
                   /\ exitCause \in {"none", "interrupt"}

\* C3: a backup of a store holding n >= 1 records, with no failure of the
\* query or of the file system, leaves a file whose header is the ten
\* documented columns and which holds min(n, 1000) data rows, the most
\* recent first.
C3_BackupDeterminism ==
    (bk = "done" /\ bkFault \notin {"query", "mkdir", "open", "write"} /\ Len(rows) >= 1)
    => /\ file.exists
       /\ file.header = field_names
       /\ Len(file.data) = Min(Len(rows), BackupLimit)
       /\ \A i \in 1..(Len(file.data) - 1) :
             ~Earlier(Instant(file.data[i][1]), Instant(file.data[i + 1][1]))

\* A get_latest_records(1) whose query succeeded has returned to a client
\* whose call before it was an insert that returned normally.
RecentOneAfterInsert ==
    /\ pc = "client_recent" /\ phase = "return" /\ arg = 1 /\ exc = "none"
    /\ prev.op = "insert"

\* C4 as stated: the one record returned equals the inserted record on each
\* of the ten data fields.
C4_RoundTrip ==
    RecentOneAfterInsert
    => /\ Len(result) = 1
       /\ result[1].timestamp = prev.value.timestamp
       /\ result[1].city = prev.value.city
       /\ result[1].country = prev.value.country
       /\ result[1].current_temperature = prev.value.current_temperature
       /\ result[1].max_temperature = prev.value.max_temperature
       /\ result[1].min_temperature = prev.value.min_temperature
       /\ result[1].description = prev.value.description
       /\ result[1].cloud_percent = prev.value.cloud_percentage
       /\ result[1].humidity = prev.value.humidity
       /\ result[1].visibility = prev.value.visibility

\* The ISO text of a datetime: "... HH:MM:SS" with ".ffffff" appended unless
\* the microseconds are 0.
IsoText(dt) == [str |-> IF dt.us = 0 THEN << dt.sec >> ELSE << dt.sec, dt.us >>]

\* A row holds the record field for field, its timestamp as ISO text.
StoredAs(row, info) ==
    /\ row.timestamp = IsoText(info.timestamp)
    /\ row.city = info.city
    /\ row.country = info.country
    /\ row.current_temperature = info.current_temperature
    /\ row.max_temperature = info.max_temperature
    /\ row.min_temperature = info.min_temperature
    /\ row.description = info.description
    /\ row.cloud_percent = info.cloud_percentage
    /\ row.humidity = info.humidity
    /\ row.visibility = info.visibility

\* The inserted record is later than every row that was stored before it.
InsertedIsLatest ==
    \A i \in 1..(Len(rows) - 1) :
        Earlier(Instant(rows[i].timestamp), << prev.value.timestamp.sec, prev.value.timestamp.us >>)

\* C4, amended: when the inserted record is strictly later than every row
\* already stored, the one record returned has the nine other data fields
\* equal to the inserted record's and, as timestamp, the text of its
\* timestamp.
C4_RoundTripLatest ==
    (RecentOneAfterInsert /\ InsertedIsLatest)
    => /\ Len(result) = 1
       /\ StoredAs(result[1], prev.value)

\* An insert into a store that already holds an earlier row, read back.
C4_Witness ==
    /\ RecentOneAfterInsert /\ InsertedIsLatest
    /\ Len(rows) >= 2
    /\ prev.value.timestamp.us # 0

IsPrefix(a, b) == Len(a) <= Len(b) /\ \A i \in 1..Len(a) : a[i] = b[i]

\* C5: an insert that has come back to its caller either returned normally
\* with exactly one row appended, the row of its record, or raised with the
\* rows as they were at the call; and no method ever changes or removes a
\* row that was there when it was called.
C5_InsertAllOrNothing ==
    /\ IsPrefix(rows0, rows)
    /\ Len(rows) <= Len(rows0) + 1
    /\ (op = "insert" /\ phase = "return")
       => IF raised
          THEN rows = rows0
          ELSE /\ arg.kind = "record"
               /\ Len(rows) = Len(rows0) + 1
               /\ StoredAs(rows[Len(rows)], arg.value)
    /\ (op # "insert") => rows = rows0

\* An insert of a complete record into a store with rows, whose statement or
\* commit failed, has raised to its caller.
C5_Witness ==
    /\ op = "insert" /\ phase = "return" /\ raised
    /\ exc = "sqlite" /\ conn
    /\ arg.kind = "record" /\ AbsentFields(arg.value) = {}
    /\ Len(rows) >= 1

\* C6: every stored row has its ten data fields non-null, and an insert of
\* a record of the Fetcher with an absent field raises and stores nothing.
C6_NoPartiallyNullRow ==
    /\ \A i \in 1..Len(rows) :
          \A c \in DataColumns \ {"timestamp"} : rows[i][c] # None
    /\ \A i \in 1..Len(txn) :
          \A c \in DataColumns \ {"timestamp"} : txn[i][c] # None
    /\ (op = "insert" /\ phase = "return" /\ arg.kind = "record"
            /\ AbsentFields(arg.value) # {})
       => raised /\ rows = rows0

\* The hourly job's insert of an answer without its "sys" object has raised.
C6_Witness ==
    /\ pc = "job_insert" /\ phase = "return" /\ raised
    /\ arg.kind = "record" /\ AbsentFields(arg.value) = {"country"}
    /\ Len(rows) >= 1

\* C7: get_latest_records never raises and returns [] when its query
\* failed; initialize_backup never raises, whichever step failed; main
\* never returns because of the weekly backup.
C7_ReadPathNeverRaises ==
    /\ (op = "recent" /\ phase = "return")
       => ~raised /\ (exc # "none" => result = << >>)
    /\ bk = "done" => ~bkRaised
    /\ exitCause # "weekly"

\* A scheduled backup that failed has come back to run_pending.
C7_Witness ==
    /\ pc = "weekly" /\ bk = "done"
    /\ bkFault \in {"query", "mkdir", "open", "write"}

\* C8: a get_latest_records(k) whose query succeeded returns min(k, n) rows
\* of the n stored, each stored row at most once, no row left out being
\* later than a row returned, and the rows returned from the latest to the
\* earliest.
C8_RecentOrdering ==
    (op = "recent" /\ phase = "return" /\ exc = "none")
    => /\ Len(result) = Min(arg, Len(rows))
       /\ \A i \in 1..Len(result) : \E j \in 1..Len(rows) : result[i] = rows[j]
       /\ \A i, j \in 1..Len(result) : result[i].id = result[j].id => i = j
       /\ \A i \in 1..(Len(result) - 1) :
             ~Earlier(Instant(result[i].timestamp), Instant(result[i + 1].timestamp))
       /\ \A j \in 1..Len(rows) :
             (\A i \in 1..Len(result) : result[i].id # rows[j].id)
             => \A i \in 1..Len(result) :
                   ~Earlier(Instant(result[i].timestamp), Instant(rows[j].timestamp))

\* A client has asked for the two latest of three rows, two of them within
\* the same second.
C8_Witness ==
    /\ pc = "client_recent" /\ phase = "return" /\ exc = "none"
    /\ arg = 2 /\ Len(rows) = 3 /\ Len(result) = 2
    /\ \E i, j \in 1..3 : /\ rows[i].timestamp.str[1] = rows[j].timestamp.str[1]
                          /\ Len(rows[i].timestamp.str) < Len(rows[j].timestamp.str)

\* C9: at most one connection is open; one is open only inside the with
\* block of the method that opened it, and none once the block is left, by
\* return or by exception, nor while no method of the Store runs.
C9_ConnectionDiscipline ==
    /\ openConns \in {0, 1}
    /\ (openConns = 1) <=> (phase \in {"body", "commit"} \/ (phase \in {"except", "finally"} /\ conn))
    /\ phase \in {"idle", "handler", "return"} => openConns = 0
    /\ op = "none" => openConns = 0

\* An insert of the hourly job whose statement or commit failed has come
\* back, rolled back, with its connection closed.
C9_Witness ==
    /\ op = "insert" /\ phase = "return" /\ exc = "sqlite" /\ conn
    /\ InLoop /\ openConns = 0

\* C10: main initializes the Store, then completes one immediate cycle, then
\* registers the jobs, then polls; no job runs before that, and while the
\* loop runs the table exists and holds a record.
C10_StartupOrdering ==
    /\ IsPrefix(events, << "init", "cycle", "register" >>)
    /\ InLoop => /\ events = << "init", "cycle", "register" >>
                 /\ registered = {"hourly", "weekly"}
                 /\ Len(rows) >= 1
    /\ jobsRun # {} => events = << "init", "cycle", "register" >>
    /\ registered # {} => events = << "init", "cycle", "register" >>
    /\ (pc \in {"first_fetch", "first_insert", "first_insert_wait"}) => events = << "init" >>
    /\ ~InLoop /\ pc # "exit" => jobsRun = {} /\ polls = 0

\* Both jobs have run in the loop.
C10_Witness ==
    /\ pc = "dispatch" /\ jobsRun = {"hourly", "weekly"}
    /\ Len(rows) >= 2
====
